---- MODULE Spec2Model ----
(***************************************************************************)
(* A model of pg_graphql_mcp.py: the transport client                      *)
(* GraphQLClient.execute_query, and the five exposed operations            *)
(* graphql_query, introspection_query, list_tables, get_table_info and     *)
(* execute_collection_query, run by a host against a remote server that    *)
(* may answer anything; and of the pagination walk of                      *)
(* examples/pagination_demo.py over execute_collection_query.              *)
(*                                                                         *)
(* Spec runs one caller against a server that may answer anything.         *)
(* SpecContract runs the walk beside other callers against a server that   *)
(* serves an unchanging dataset by the collection contract.                *)
(*                                                                         *)
(* Text is a sequence of chunks (TLA+ strings); identifiers are spelled    *)
(* one character per chunk, so that startswith, endswith, slicing and      *)
(* capitalize are computed character by character.  A JSON / Python value  *)
(* is a record tagged by its type in field t.                              *)
(***************************************************************************)
EXTENDS Integers, Sequences, FiniteSets, TLC

\* ------------------------------------------------------------------ bounds
MaxNameLen == 2      \* longest generated collection_name / field stem
MaxFirst   == 2      \* largest page size the host passes as `first`
MaxFields  == 2      \* longest root-field list of an introspection response
MaxErrors  == 2      \* longest `errors` list of a response
MaxRedirects == 1    \* most redirects the server makes one call follow
MaxRecords == 10     \* largest dataset the contract-honouring server serves
MaxPeers   == 1      \* callers running beside the pagination walk

\* ------------------------------------------------------------ Python values
JNull    == [t |-> "null"]
JNum(n)  == [t |-> "num", v |-> n]
JStr(s)  == [t |-> "str", v |-> s]
JArr(a)  == [t |-> "arr", v |-> a]
JObj(o)  == [t |-> "obj", v |-> o]
JBool(b) == [t |-> "bool", v |-> b]
EmptyObj == JObj(<<>>)

\* Outcome of evaluating Python code: a value, or a raised exception.
Return(x)      == [kind |-> "return", value |-> x]
Raise(ty, m)   == [kind |-> "raise", type |-> ty, msg |-> m]
IsRaise(r)     == r.kind = "raise"

TypeName(j) ==
  CASE j.t = "null" -> "NoneType"
    [] j.t = "num"  -> "int"
    [] j.t = "str"  -> "str"
    [] j.t = "arr"  -> "list"
    [] j.t = "obj"  -> "dict"
    [] j.t = "bool" -> "bool"

\* bool(j): None, False, 0, "", [] and {} are false.
Truthy(j) ==
  CASE j.t = "null"    -> FALSE
    [] j.t = "num"     -> j.v # 0
    [] j.t = "bool"    -> j.v
    [] j.t = "obj"     -> DOMAIN j.v # {}
    [] j.t = "jsonstr" -> TRUE
    [] OTHER           -> Len(j.v) # 0

\* `key in j` for a str key.
In(key, j) ==
  CASE j.t = "obj" -> Return(key \in DOMAIN j.v)
    [] j.t = "arr" -> Return(\E i \in DOMAIN j.v : j.v[i] = JStr(<<key>>))
    [] j.t = "str" -> Return(\E i \in DOMAIN j.v : j.v[i] = key)
    [] OTHER       -> Raise("TypeError",
                            <<"argument of type '", TypeName(j), "' is not iterable">>)

\* j[key] for a str key.
Subscript(j, key) ==
  CASE j.t = "obj" -> IF key \in DOMAIN j.v THEN Return(j.v[key])
                      ELSE Raise("KeyError", <<"'", key, "'">>)
    [] j.t = "arr" -> Raise("TypeError",
                            <<"list indices must be integers or slices, not str">>)
    [] j.t = "str" -> Raise("TypeError",
                            <<"string indices must be integers, not 'str'">>)
    [] OTHER       -> Raise("TypeError",
                            <<"'", TypeName(j), "' object is not subscriptable">>)

\* j.get(key, default)
Get(j, key, default) ==
  IF j.t = "obj"
  THEN Return(IF key \in DOMAIN j.v THEN j.v[key] ELSE default)
  ELSE Raise("AttributeError",
             <<"'", TypeName(j), "' object has no attribute 'get'">>)

\* The sequence `for x in j` walks: the items of a list, the keys of a dict,
\* the characters of a str.
RECURSIVE SetToSeq(_)
SetToSeq(S) ==
  IF S = {} THEN <<>>
  ELSE LET x == CHOOSE y \in S : TRUE IN <<x>> \o SetToSeq(S \ {x})

Iter(j) ==
  CASE j.t = "arr" -> Return(j.v)
    [] j.t = "obj" -> Return([i \in 1..Cardinality(DOMAIN j.v) |->
                                JStr(<<SetToSeq(DOMAIN j.v)[i]>>)])
    [] j.t = "str" -> Return([i \in DOMAIN j.v |-> JStr(<<j.v[i]>>)])
    [] OTHER       -> Raise("TypeError",
                            <<"'", TypeName(j), "' object is not iterable">>)

\* -------------------------------------------------------------------- text
LowerAlphabet == <<"a","b","c","d","e","f","g","h","i","j","k","l","m",
                   "n","o","p","q","r","s","t","u","v","w","x","y","z">>
UpperAlphabet == <<"A","B","C","D","E","F","G","H","I","J","K","L","M",
                   "N","O","P","Q","R","S","T","U","V","W","X","Y","Z">>

ToUpper(c) ==
  IF \E i \in DOMAIN LowerAlphabet : LowerAlphabet[i] = c
  THEN UpperAlphabet[CHOOSE i \in DOMAIN LowerAlphabet : LowerAlphabet[i] = c]
  ELSE c

ToLower(c) ==
  IF \E i \in DOMAIN UpperAlphabet : UpperAlphabet[i] = c
  THEN LowerAlphabet[CHOOSE i \in DOMAIN UpperAlphabet : UpperAlphabet[i] = c]
  ELSE c

\* A variant that upper-cases the first character and keeps the others.
CapitalizeFirstOnly(s) ==
  [i \in DOMAIN s |-> IF i = 1 THEN ToUpper(s[i]) ELSE s[i]]

\* str.capitalize(): first character upper-cased, all the others lower-cased.
Capitalize(s) ==
  [i \in DOMAIN s |-> IF i = 1 THEN ToUpper(s[i]) ELSE ToLower(s[i])]

StartsWith(s, p) == Len(s) >= Len(p) /\ SubSeq(s, 1, Len(p)) = p
EndsWith(s, p)   == Len(s) >= Len(p) /\ SubSeq(s, Len(s) - Len(p) + 1, Len(s)) = p

\* s[:-n]
DropLast(s, n) == IF Len(s) > n THEN SubSeq(s, 1, Len(s) - n) ELSE <<>>

\* sep.join(parts), parts a sequence of Python values
RECURSIVE Join(_, _)
Join(sep, parts) ==
  IF parts = <<>> THEN Return(<<>>)
  ELSE IF \E i \in DOMAIN parts : parts[i].t # "str"
  THEN LET i == CHOOSE k \in DOMAIN parts :
                  parts[k].t # "str" /\ \A l \in 1..(k-1) : parts[l].t = "str"
       IN Raise("TypeError", <<"sequence item: expected str instance, ",
                               TypeName(parts[i]), " found">>)
  ELSE IF Len(parts) = 1 THEN Return(parts[1].v)
  ELSE Return(parts[1].v \o sep \o Join(sep, Tail(parts)).value)

\* ------------------------------------------------------- strings and bytes
\* A Python str is either plain text, JStr(chunks), or the JSON document of
\* a value j, Dumps(j): what json.dumps(j, ensure_ascii=False, indent=2)
\* returns and what json.loads reads back.
Dumps(j) == [t |-> "jsonstr", v |-> j]

\* json.loads(s)
Loads(s) ==
  IF s.t = "jsonstr" THEN Return(s.v)
  ELSE Raise("JSONDecodeError", <<"Expecting value: line 1 column 1 (char 0)">>)

\* s.strip() of a str
IsBlankChunk(c) == c \in {" ", "\t", "\n"}
StripText(s) ==
  IF s.t = "jsonstr" THEN s
  ELSE IF \A i \in DOMAIN s.v : IsBlankChunk(s.v[i]) THEN JStr(<<>>)
  ELSE LET lo == CHOOSE i \in DOMAIN s.v :
                   ~IsBlankChunk(s.v[i]) /\ \A k \in 1..(i-1) : IsBlankChunk(s.v[k])
           hi == CHOOSE i \in DOMAIN s.v :
                   ~IsBlankChunk(s.v[i]) /\ \A k \in (i+1)..Len(s.v) : IsBlankChunk(s.v[k])
       IN JStr(SubSeq(s.v, lo, hi))

\* The bytes of a response body, and bytes.decode("utf-8").
Bytes(text) == [t |-> "bytes", utf8 |-> TRUE, text |-> text]
BadBytes    == [t |-> "bytes", utf8 |-> FALSE, text |-> JStr(<<>>)]
Decode(b) ==
  IF b.utf8 THEN Return(b.text)
  ELSE Raise("UnicodeDecodeError",
             <<"'utf-8' codec can't decode byte 0xff in position 0: invalid start byte">>)

\* --------------------------------------------------------------- transport
\* What the network and the server do with one POST.
Refused        == [kind |-> "refused"]
DnsFailure     == [kind |-> "dns"]
ConnectTimeout == [kind |-> "connect_timeout"]
ReadTimeout    == [kind |-> "read_timeout"]
Http(s, b)     == [kind |-> "http", status |-> s, body |-> b]

StatusText(s) ==
  CASE s = 200 -> "200" [] s = 201 -> "201" [] s = 204 -> "204"
    [] s = 404 -> "404" [] s = 500 -> "500"
ReasonText(s) ==
  CASE s = 404 -> "Not Found" [] s = 500 -> "Internal Server Error" [] OTHER -> ""

\* urllib.error.HTTPError is a subclass of urllib.error.URLError.
URLErrorTypes == {"URLError", "HTTPError"}

\* urllib.request.urlopen(req, timeout=30): the response, or what it raises.
\* A connection that fails or times out while the request is sent raises
\* URLError; a timeout while the response is awaited raises the socket's
\* TimeoutError; a status outside 200..299 raises HTTPError.
UrlOpen(wire) ==
  CASE wire.kind = "refused" ->
         Raise("URLError", <<"<urlopen error [Errno 111] Connection refused>">>)
    [] wire.kind = "dns" ->
         Raise("URLError", <<"<urlopen error [Errno -3] Temporary failure in name resolution>">>)
    [] wire.kind = "connect_timeout" ->
         Raise("URLError", <<"<urlopen error timed out>">>)
    [] wire.kind = "read_timeout" ->
         Raise("TimeoutError", <<"timed out">>)
    [] wire.kind = "http" ->
         IF wire.status >= 200 /\ wire.status <= 299
         THEN Return(wire)
         ELSE Raise("HTTPError", <<"HTTP Error ", StatusText(wire.status), ": ",
                                   ReasonText(wire.status)>>)

\* [err.get("message", "Unknown Error") for err in errors]
RECURSIVE Messages(_)
Messages(errs) ==
  IF errs = <<>> THEN Return(<<>>)
  ELSE LET m == Get(Head(errs), "message", JStr(<<"Unknown Error">>))
       IN IF IsRaise(m) THEN m
          ELSE LET rest == Messages(Tail(errs))
               IN IF IsRaise(rest) THEN rest ELSE Return(<<m.value>> \o rest.value)

\* Lines 71-77: the GraphQL Error raised from result["errors"].
GraphQLError(result) ==
  LET errs == Subscript(result, "errors")
  IN IF IsRaise(errs) THEN errs
     ELSE LET it == Iter(errs.value)
          IN IF IsRaise(it) THEN it
             ELSE LET ms == Messages(it.value)
                  IN IF IsRaise(ms) THEN ms
                     ELSE LET joined == Join(<<"; ">>, ms.value)
                          IN IF IsRaise(joined) THEN joined
                             ELSE Raise("Exception", <<"GraphQL Error: ">> \o joined.value)

\* A variant that lets a result through when it also carries `data`.
CheckErrorsUnlessData(result) ==
  LET has == In("errors", result)
  IN IF IsRaise(has) THEN has
     ELSE IF has.value /\ ~(result.t = "obj" /\ "data" \in DOMAIN result.v)
     THEN GraphQLError(result)
     ELSE Return(result)

\* Lines 70-79: the check for GraphQL errors on the decoded result.
CheckErrors(result) ==
  LET has == In("errors", result)
  IN IF IsRaise(has) THEN has
     ELSE IF has.value THEN GraphQLError(result)
     ELSE Return(result)

\* Lines 60-79: the body of the try block, from urlopen on.
TryBody(wire) ==
  LET response == UrlOpen(wire)
  IN IF IsRaise(response) THEN response
     ELSE LET text == Decode(response.value.body)
          IN IF IsRaise(text) THEN text
             ELSE IF response.value.status # 200
             THEN Raise("Exception",
                        <<"HTTP Error: ", StatusText(response.value.status), " - ">>
                          \o text.value.v)
             ELSE LET result == Loads(text.value)
                  IN IF IsRaise(result) THEN result ELSE CheckErrors(result.value)

\* GraphQLClient.execute_query, given what the network does with its request:
\* the decoded result, or the exception it raises.
ExecuteQuery(wire) ==
  LET r == TryBody(wire)
  IN IF IsRaise(r) /\ r.type \in URLErrorTypes
     THEN Raise("Exception", <<"Network request error: ">> \o r.msg)
     ELSE IF IsRaise(r) /\ r.type = "JSONDecodeError"
     THEN Raise("Exception", <<"JSON parsing error: ">> \o r.msg)
     ELSE r

\* The request body execute_query serializes (lines 44-48).
Payload(query, variables, operation_name) ==
  [query         |-> query,
   variables     |-> IF Truthy(variables) THEN variables ELSE EmptyObj,
   operationName |-> operation_name]

\* A variant that adds an empty `data` to the failure result.
ErrorResultWithData(msg) == Dumps(JObj([error |-> JStr(msg), data |-> JNull]))

\* {"error": str(e)} serialized: what every exposed operation returns from
\* its `except Exception` clause.
ErrorResult(msg) == Dumps(JObj([error |-> JStr(msg)]))

\* ------------------------------------------------------------- the queries
\* A query text is kept as the parts its template is assembled from: the
\* operation name after `query`, the root field selected, and its arguments.
Query(operation, root, args) == [operation |-> operation, root |-> root, args |-> args]

Suffix    == <<"C","o","l","l","e","c","t","i","o","n">>
SuffixLen == 10
Reserved  == <<"_","_">>

IntrospectionQueryText ==
  Query(<<"IntrospectionQuery">>, <<"__schema">>, <<>>)
ListTablesText ==
  Query(<<"ListTables">>, <<"__schema">>, <<>>)
TableInfoText(table_name) ==
  Query(<<"GetTableInfo">>, <<"__type">>, <<"name: \"">> \o table_name \o <<"\"">>)

\* Lines 298-315: the collection query of execute_collection_query.
OperationName(collection_name) ==
  <<"G","e","t">> \o Capitalize(collection_name) \o Suffix
RootField(collection_name) == collection_name \o Suffix
CollectionQueryText(collection_name) ==
  Query(OperationName(collection_name), RootField(collection_name),
        <<"first: $first, after: $after">>)

\* A variant that tests `after is not None` instead of `after`.
VariablesAfterNotNone(first, after) ==
  IF after # JNull
  THEN JObj([first |-> JNum(first), after |-> after])
  ELSE JObj([first |-> JNum(first)])

\* Lines 317-319: the variables of execute_collection_query.
Variables(first, after) ==
  IF Truthy(after)
  THEN JObj([first |-> JNum(first), after |-> after])
  ELSE JObj([first |-> JNum(first)])

\* ------------------------------------------------------------- the catalog
\* A variant that forgets to filter out the reserved `__` fields.
IsCollectionFieldAnyPrefix(field_name) == EndsWith(field_name, Suffix)

\* Lines 210 and 212: the fields list_tables keeps.
IsCollectionField(field_name) ==
  ~StartsWith(field_name, Reserved) /\ EndsWith(field_name, Suffix)

\* A variant that cuts one character too few.
TableNameOffByOne(field_name) == DropLast(field_name, SuffixLen - 1)

\* Line 213: field_name[:-10]
TableName(field_name) == DropLast(field_name, SuffixLen)

\* Lines 215-219
Descriptor(field, field_name) ==
  LET description == Get(field, "description", JStr(<<>>))
  IN IF IsRaise(description) THEN description
     ELSE Return(JObj([name        |-> JStr(TableName(field_name)),
                       type        |-> JStr(<<"collection">>),
                       description |-> description.value]))

\* Lines 207-220: the loop over query_fields, appending to tables.
RECURSIVE BuildTables(_, _)
BuildTables(fields, tables) ==
  IF fields = <<>> THEN Return(tables)
  ELSE LET field == Head(fields)
           nm    == Subscript(field, "name")
       IN IF IsRaise(nm) THEN nm
          ELSE IF nm.value.t # "str"
          THEN Raise("AttributeError",
                     <<"'", TypeName(nm.value), "' object has no attribute 'startswith'">>)
          ELSE IF IsCollectionField(nm.value.v)
          THEN LET d == Descriptor(field, nm.value.v)
               IN IF IsRaise(d) THEN d
                  ELSE BuildTables(Tail(fields), Append(tables, d.value))
          ELSE BuildTables(Tail(fields), tables)

\* result["data"]["__schema"]["queryType"]["fields"] (line 204)
QueryFields(result) ==
  LET d == Subscript(result, "data")
  IN IF IsRaise(d) THEN d
     ELSE LET s == Subscript(d.value, "__schema")
          IN IF IsRaise(s) THEN s
             ELSE LET q == Subscript(s.value, "queryType")
                  IN IF IsRaise(q) THEN q ELSE Subscript(q.value, "fields")

\* Lines 203-226: what list_tables does with a result of execute_query.
Catalog(result) ==
  LET hasData == In("data", result)
  IN IF IsRaise(hasData) THEN hasData
     ELSE IF ~hasData.value THEN Return(result)
     ELSE LET data      == Subscript(result, "data")
              hasSchema == IF IsRaise(data) THEN data ELSE In("__schema", data.value)
          IN IF IsRaise(hasSchema) THEN hasSchema
             ELSE IF ~hasSchema.value THEN Return(result)
             ELSE LET query_fields == QueryFields(result)
                  IN IF IsRaise(query_fields) THEN query_fields
                     ELSE LET it == Iter(query_fields.value)
                          IN IF IsRaise(it) THEN it
                             ELSE LET tables == BuildTables(it.value, <<>>)
                                  IN IF IsRaise(tables) THEN tables
                                     ELSE Return(Dumps(JObj(
                                            [tables |-> JArr(tables.value),
                                             total  |-> JNum(Len(tables.value))])))

\* ------------------------------------------- the exposed operations' results
\* Each exposed operation, from the outcome of its one execute_query call to
\* what it hands back to the host.
DumpOrError(r) ==
  IF IsRaise(r) THEN Return(ErrorResult(r.msg)) ELSE Return(Dumps(r.value))

GraphqlQueryResult(wire)           == DumpOrError(ExecuteQuery(wire))
IntrospectionQueryResult(wire)     == DumpOrError(ExecuteQuery(wire))
GetTableInfoResult(wire)           == DumpOrError(ExecuteQuery(wire))
ExecuteCollectionQueryResult(wire) == DumpOrError(ExecuteQuery(wire))

ListTablesResult(wire) ==
  LET r == ExecuteQuery(wire)
  IN IF IsRaise(r) THEN Return(ErrorResult(r.msg))
     ELSE LET c == Catalog(r.value)
          IN IF IsRaise(c) THEN Return(ErrorResult(c.msg)) ELSE c

\* A variant that parses whatever is not empty, blank text included.
ParseVariablesUnstripped(variables) ==
  IF Truthy(variables) THEN Loads(variables) ELSE Return(JNull)

\* graphql_query, lines 106-115: the variables string parsed, None when it is
\* absent or blank.
ParseVariables(variables) ==
  IF Truthy(variables) /\ Truthy(StripText(variables))
  THEN Loads(variables)
  ELSE Return(JNull)

\* ------------------------------------------- examples/pagination_demo.py
PageSize   == 3      \* page_size
TotalPages == 3      \* total_pages

\* The locals of demo_pagination.  result stays unbound until the first
\* json.loads returns.
Unbound == [t |-> "unbound"]
NoWalk  == [pc |-> "off"]
FirstIteration ==
  [pc |-> "fetching", page_num |-> 1, current_cursor |-> JNull,
   all_pages_data |-> <<>>, result |-> Unbound]

\* len(j)
LenOf(j) ==
  CASE j.t \in {"arr", "str"} -> Return(Len(j.v))
    [] j.t = "obj"            -> Return(Cardinality(DOMAIN j.v))
    [] OTHER                  -> Raise("TypeError",
                                      <<"object of type '", TypeName(j), "' has no len()">>)

\* [edge["node"]["id"] for edge in edges]
RECURSIVE RecordIds(_)
RecordIds(edges) ==
  IF edges = <<>> THEN Return(<<>>)
  ELSE LET node == Subscript(Head(edges), "node")
           id   == IF IsRaise(node) THEN node ELSE Subscript(node.value, "id")
       IN IF IsRaise(id) THEN id
          ELSE LET rest == RecordIds(Tail(edges))
               IN IF IsRaise(rest) THEN rest ELSE Return(<<id.value>> \o rest.value)

\* What one pass through the loop body leaves: the locals, and whether the
\* pass ended in `break`.
Break(w)  == [walk |-> w, brk |-> TRUE]
GoOn(w)   == [walk |-> w, brk |-> FALSE]

\* A variant that keeps the cursor it had.
NextCursorStale(current_cursor, end_cursor) == current_cursor

\* Line 74: current_cursor = end_cursor
NextCursor(current_cursor, end_cursor) == end_cursor

\* A variant that goes on whenever the page carries a cursor.
NoMorePagesWithoutCursorOnly(has_next, end_cursor) == ~Truthy(end_cursor)

\* Line 69: not has_next or not end_cursor
NoMorePages(has_next, end_cursor) == ~Truthy(has_next) \/ ~Truthy(end_cursor)

\* Lines 46-75: the page read out of a result that has `data`.  Whatever
\* raises on the way is caught at line 77, which breaks.
TakePage(w, result) ==
  LET data       == Subscript(result, "data")
      collection == IF IsRaise(data) THEN data
                    ELSE Subscript(data.value, "newsCollection")
      edges      == IF IsRaise(collection) THEN collection
                    ELSE Subscript(collection.value, "edges")
      page_info  == IF IsRaise(edges) THEN edges
                    ELSE Subscript(collection.value, "pageInfo")
      count      == IF IsRaise(page_info) THEN page_info ELSE LenOf(edges.value)
      it         == IF IsRaise(count) THEN count ELSE Iter(edges.value)
      record_ids == IF IsRaise(it) THEN it ELSE RecordIds(it.value)
  IN IF IsRaise(record_ids) THEN Break(w)
     ELSE LET saved == [w EXCEPT !.all_pages_data =
                          Append(@, [page     |-> w.page_num,
                                     records  |-> edges.value,
                                     pageInfo |-> page_info.value])]
              has_next   == Get(page_info.value, "hasNextPage", JBool(FALSE))
              end_cursor == Get(page_info.value, "endCursor", JNull)
          IN IF IsRaise(has_next) \/ IsRaise(end_cursor) THEN Break(saved)
             ELSE IF NoMorePages(has_next.value, end_cursor.value) THEN Break(saved)
             ELSE GoOn([saved EXCEPT !.current_cursor =
                          NextCursor(@, end_cursor.value)])

\* Lines 37-79: the loop body after execute_collection_query has returned
\* result_json.  A result with neither `error` nor `data` falls through both
\* ifs to the next pass.
LoopBody(w, result_json) ==
  LET loaded == Loads(result_json)
  IN IF IsRaise(loaded) THEN Break(w)
     ELSE LET result   == loaded.value
              bound    == [w EXCEPT !.result = result]
              hasError == In("error", result)
          IN IF IsRaise(hasError) THEN Break(bound)
             ELSE IF hasError.value THEN Break(bound)
             ELSE IF ~In("data", result).value THEN GoOn(bound)
             ELSE TakePage(bound, result)

\* ------------------------------------------------------ the host's inputs
NameChars == {"a", "B", "_"}
Names     == UNION {[1..k -> NameChars] : k \in 1..MaxNameLen}
News      == <<"n","e","w","s">>
BlogPost  == <<"b","l","o","g","P","o","s","t">>
CollectionNames == Names \cup {News, BlogPost}

HostQueries    == {Query(<<>>, <<"__typename">>, <<>>),
                   Query(<<>>, <<"invalidTableCollection">>, <<"edges { node { id } }">>)}
VariablesArgs  == {JNull, JStr(<<>>), JStr(<<" ">>), JStr(<<"{bad">>), JStr(<<" ", "{bad">>),
                   Dumps(JObj([a |-> JNum(1)])), Dumps(JNum(5)), Dumps(JNull)}
OperationNames == {JNull, JStr(<<"Op">>)}
Firsts         == 1..MaxFirst
Afters         == {JNull, JStr(<<>>), JStr(<<"c3">>)}
\* (where, order_by)
Filters        == {<<JNull, JNull>>, <<JStr(<<"{id: {eq: 1}}">>), JNull>>,
                   <<JNull, JStr(<<"{id: DescNullsLast}">>)>>}

\* --------------------------------------------------- the server's answers
ErrorObjects ==
  {JObj([message |-> JStr(<<"boom">>)]), JObj([message |-> JStr(<<"b2">>)]),
   JObj([path |-> JArr(<<>>)]), JObj([message |-> JNull])}
ErrorLists == UNION {[1..k -> ErrorObjects] : k \in 0..MaxErrors}
ErrorsValues ==
  {JArr(es) : es \in ErrorLists}
    \cup {JNull, JStr(<<"boom">>), JObj([message |-> JStr(<<"boom">>)]),
          JArr(<<JStr(<<"boom">>)>>)}

SomeData == JObj([x |-> JNum(1)])
PlainBodies ==
  {JNull, JNum(5), JStr(<<"ok">>), JStr(<<"xx", "errors", "xx">>), JArr(<<>>),
   JArr(<<JStr(<<"errors">>)>>), JArr(<<JStr(<<"data">>)>>), EmptyObj,
   JObj([data |-> JNull]), JObj([data |-> EmptyObj]), JObj([data |-> SomeData]),
   JObj([data |-> JStr(<<"__schema">>)]),
   JObj([error |-> JStr(<<"x">>)]), JObj([error |-> JStr(<<"x">>), data |-> SomeData]),
   JObj([extensions |-> EmptyObj])}
ErrorBodies ==
  {JObj([errors |-> e]) : e \in ErrorsValues}
    \cup {JObj([data |-> d, errors |-> e]) : d \in {SomeData}, e \in ErrorsValues}

Field(name, description) == JObj([name |-> JStr(name), description |-> description])
FieldNames ==
  {News \o Suffix, BlogPost \o Suffix, Suffix, <<"_","a">> \o Suffix,
   <<"_","_","x">> \o Suffix, <<"_","_","t","y","p","e","n","a","m","e">>,
   <<"F","o","o">>, News \o <<"c","o","l","l","e","c","t","i","o","n">>,
   News \o Suffix \o <<"s">>}
FieldObjects ==
  {JObj([name |-> JStr(n)]) : n \in FieldNames}
    \cup {Field(News \o Suffix, JNull), Field(News \o Suffix, JStr(<<"News items">>)),
          EmptyObj, JObj([name |-> JNull]), JStr(<<"x">>)}
FieldLists == UNION {[1..k -> FieldObjects] : k \in 0..MaxFields}
Schema(s) == JObj([data |-> JObj("__schema" :> s)])
SchemaBodies ==
  {Schema(JObj([queryType |-> JObj([fields |-> JArr(fs)])])) : fs \in FieldLists}
    \cup {Schema(JNull), Schema(EmptyObj), Schema(JObj([queryType |-> JNull])),
          Schema(JObj([queryType |-> JObj([fields |-> JNull])])),
          Schema(JObj([queryType |-> JObj([fields |-> EmptyObj])])),
          JObj([data   |-> JObj("__schema" :> JObj([queryType |-> JObj([fields |-> JArr(<<>>)])])),
                errors |-> JArr(<<JObj([message |-> JStr(<<"boom">>)])>>)])}

\* Answers shaped like a page of newsCollection, well formed or not.
Edge(cursor, id) == JObj([cursor |-> cursor, node |-> JObj([id |-> JNum(id)])])
PageInfo(has_next, has_previous, start_cursor, end_cursor) ==
  JObj([hasNextPage |-> has_next, hasPreviousPage |-> has_previous,
        startCursor |-> start_cursor, endCursor |-> end_cursor])
Page(edges, page_info) ==
  JObj([data |-> JObj([newsCollection |-> JObj([edges |-> edges, pageInfo |-> page_info])])])
EdgeLists == {JArr(<<>>), JArr(<<Edge(JStr(<<"c1">>), 1)>>), JNull}
PageInfos ==
  {PageInfo(JBool(h), JBool(FALSE), JNull, c) :
     h \in BOOLEAN, c \in {JStr(<<"c1">>), JStr(<<"c3">>), JStr(<<>>), JNull}}
    \cup {JObj([hasNextPage |-> JBool(TRUE)]), EmptyObj, JNull,
          JObj([hasNextPage |-> JStr(<<"yes">>), endCursor |-> JNum(5)])}
PageBodies == {Page(e, p) : e \in EdgeLists, p \in PageInfos}

Failures == {Refused, DnsFailure, ConnectTimeout, ReadTimeout}
Statuses == {201, 204, 404, 500}
RawTexts == {JStr(<<>>), JStr(<<"oops">>)}
PlainWires ==
  Failures
    \cup {Http(s, Bytes(t)) : s \in Statuses, t \in RawTexts}
    \cup {Http(201, BadBytes), Http(200, BadBytes),
          Http(200, Bytes(JStr(<<>>))), Http(200, Bytes(JStr(<<"<html>">>)))}
    \cup {Http(200, Bytes(Dumps(j))) : j \in PlainBodies \cup ErrorBodies}
SchemaWires == {Http(200, Bytes(Dumps(j))) : j \in SchemaBodies}
PageWires   == {Http(200, Bytes(Dumps(j))) : j \in PageBodies}

\* ------------------------------------ a server that honours the contract
\* The server of the collection contract: news is a dataset of totalCount
\* records with ids 1..totalCount in server order, record i has the cursor
\* Cursor(i), and a page is the `first` records after the cursor given.
CursorTexts == <<"c1", "c2", "c3", "c4", "c5", "c6", "c7", "c8", "c9", "c10", "c11", "c12">>
Cursor(i) == JStr(<<CursorTexts[i]>>)
ContractServer(totalCount) == [kind |-> "contract", totalCount |-> totalCount]

ContractPage(totalCount, first, after) ==
  LET start == IF after = JNull THEN 0
               ELSE CHOOSE i \in DOMAIN CursorTexts : Cursor(i) = after
      last  == IF start + first < totalCount THEN start + first ELSE totalCount
      edges == [k \in 1..(last - start) |-> Edge(Cursor(start + k), start + k)]
  IN Page(JArr(edges),
          PageInfo(JBool(last < totalCount), JBool(start > 0),
                   IF edges = <<>> THEN JNull ELSE Cursor(start + 1),
                   IF edges = <<>> THEN JNull ELSE Cursor(last)))

\* The body the server answers a request with: a page of news for the
\* collection query, the schema with its one collection for ListTables.
ContractBody(totalCount, payload) ==
  IF payload.query.root = RootField(News)
  THEN LET variables == payload.variables.v
       IN ContractPage(totalCount, variables["first"].v,
                       IF "after" \in DOMAIN variables THEN variables["after"] ELSE JNull)
  ELSE Schema(JObj([queryType |->
                      JObj([fields |-> JArr(<<Field(RootField(News), JNull)>>)])]))

ContractWire(totalCount, payload) ==
  Http(200, Bytes(Dumps(ContractBody(totalCount, payload))))

\* ------------------------------------------------------------------- state
VARIABLES
  pc,       \* "idle": the host may call; "waiting": a request is in flight;
            \* "returned": the host holds the call's result
  call,     \* the exposed operation being run (or last run) and its arguments
  request,  \* the body of the POST the call sent, NoRequest before it sends
  nreq,     \* the number of HTTP requests the call has caused
  wire,     \* what the network did with the request, NoWire before it answers
  ret,      \* what the call handed back to the host, NoReturn while it runs
  origin,   \* the root field a catalogue-derived collection_name came from
  walk,     \* the locals of demo_pagination while it runs, NoWalk otherwise
  server,   \* AnyServer, or a server that serves a dataset by the contract
  peers     \* other callers of the exposed operations, running concurrently
vars == <<pc, call, request, nreq, wire, ret, origin, walk, server, peers>>

NoCall    == [op |-> "none"]
NoRequest == [none |-> TRUE]
NoWire    == [kind |-> "none"]
NoReturn  == [kind |-> "none"]
NoOrigin  == JNull
AnyServer == [kind |-> "any"]
NoPeers   == <<>>

Init ==
  /\ pc = "idle"
  /\ call = NoCall
  /\ request = NoRequest
  /\ nreq = 0
  /\ wire = NoWire
  /\ ret = NoReturn
  /\ origin = NoOrigin
  /\ walk = NoWalk
  /\ server = AnyServer
  /\ peers = NoPeers

\* A call that sends its request and blocks in urlopen.
Send(c, payload, from) ==
  /\ pc' = "waiting"
  /\ call' = c
  /\ request' = payload
  /\ nreq' = 1
  /\ wire' = NoWire
  /\ ret' = NoReturn
  /\ origin' = from

CallGraphqlQuery ==
  /\ pc = "idle"
  /\ \E query \in HostQueries, variables \in VariablesArgs, operation_name \in OperationNames :
       LET c == [op |-> "graphql_query", query |-> query, variables |-> variables,
                 operation_name |-> operation_name]
           parsed_variables == ParseVariables(variables)
       IN IF IsRaise(parsed_variables)
          THEN /\ pc' = "returned"
               /\ call' = c
               /\ request' = NoRequest
               /\ nreq' = 0
               /\ wire' = NoWire
               /\ ret' = Return(ErrorResult(<<"Variables JSON format error">>))
               /\ origin' = NoOrigin
          ELSE Send(c, Payload(query, parsed_variables.value, operation_name), NoOrigin)
  /\ UNCHANGED <<walk, server, peers>>

CallIntrospectionQuery ==
  /\ pc = "idle"
  /\ Send([op |-> "introspection_query"],
          Payload(IntrospectionQueryText, JNull, JNull), NoOrigin)
  /\ UNCHANGED <<walk, server, peers>>

CallListTables ==
  /\ pc = "idle"
  /\ Send([op |-> "list_tables"], Payload(ListTablesText, JNull, JNull), NoOrigin)
  /\ UNCHANGED <<walk, server, peers>>

CallGetTableInfo ==
  /\ pc = "idle"
  /\ \E table_name \in CollectionNames :
       Send([op |-> "get_table_info", table_name |-> table_name],
            Payload(TableInfoText(table_name), JNull, JNull), NoOrigin)
  /\ UNCHANGED <<walk, server, peers>>

CollectionCall(collection_name, first, after, where, order_by) ==
  [op |-> "execute_collection_query", collection_name |-> collection_name,
   first |-> first, after |-> after, where |-> where, order_by |-> order_by]

\* A variant that keeps `variables` in one dict shared by the calls: the
\* `after` the walk's last request set is still in it.
CollectionRequestSharedVariables(collection_name, first, after, where, order_by) ==
  Payload(CollectionQueryText(collection_name),
          IF ~Truthy(after) /\ request # NoRequest /\ "after" \in DOMAIN request.variables.v
          THEN Variables(first, request.variables.v["after"])
          ELSE Variables(first, after),
          JNull)

\* Lines 298-323 of execute_collection_query: the request it sends.  `where`
\* and `order_by` are parameters the body never reads.
CollectionRequest(collection_name, first, after, where, order_by) ==
  Payload(CollectionQueryText(collection_name), Variables(first, after), JNull)

CallExecuteCollectionQuery ==
  /\ pc = "idle"
  /\ \E collection_name \in CollectionNames, first \in Firsts, after \in Afters, f \in Filters :
       Send(CollectionCall(collection_name, first, after, f[1], f[2]),
            CollectionRequest(collection_name, first, after, f[1], f[2]),
            NoOrigin)
  /\ UNCHANGED <<walk, server, peers>>

\* The tables of a list_tables result the host can read a name from.
HasTables(r) ==
  /\ r.kind = "return"
  /\ r.value.t = "jsonstr"
  /\ r.value.v.t = "obj"
  /\ "tables" \in DOMAIN r.value.v.v
TablesOf(r) == r.value.v.v["tables"].v

\* The root fields list_tables made its descriptors from, in order.
SourceFields(w) ==
  LET fields == w.body.text.v.v["data"].v["__schema"].v["queryType"].v["fields"]
      names  == IF fields.t = "arr" THEN [i \in DOMAIN fields.v |-> fields.v[i].v["name"].v]
                ELSE <<>>
  IN SelectSeq(names, IsCollectionField)

\* The host takes a table name from the catalogue it was just given and
\* fetches that collection's first page (examples/user_demo.py).
CallCollectionFromCatalog ==
  /\ pc = "returned"
  /\ call.op = "list_tables"
  /\ HasTables(ret)
  /\ \E i \in DOMAIN TablesOf(ret), first \in Firsts :
       LET collection_name == TablesOf(ret)[i].v["name"].v
       IN Send(CollectionCall(collection_name, first, JNull, JNull, JNull),
               CollectionRequest(collection_name, first, JNull, JNull, JNull),
               JStr(SourceFields(wire)[i]))
  /\ UNCHANGED <<walk, server, peers>>

\* Lines 31-35 of the demo: the fetch of one pass of the loop.
Fetch(w) ==
  Send(CollectionCall(News, PageSize, w.current_cursor, JNull, JNull),
       CollectionRequest(News, PageSize, w.current_cursor, JNull, JNull),
       NoOrigin)

\* demo_pagination starts: the locals are set and the first pass fetches.
DemoPagination ==
  /\ pc = "idle"
  /\ walk' = FirstIteration
  /\ Fetch(FirstIteration)
  /\ UNCHANGED <<server, peers>>

\* The fetch has returned: the rest of the loop body runs, and either the
\* next pass fetches or the loop is left and the totals are printed.
DemoPaginationStep ==
  /\ pc = "returned"
  /\ walk.pc = "fetching"
  /\ LET pass == LoopBody(walk, ret.value)
     IN IF ~pass.brk /\ walk.page_num < TotalPages
        THEN LET w == [pass.walk EXCEPT !.page_num = @ + 1]
             IN walk' = w /\ Fetch(w)
        ELSE /\ walk' = [pass.walk EXCEPT !.pc = "done"]
             /\ UNCHANGED <<pc, call, request, nreq, wire, ret, origin>>
  /\ UNCHANGED <<server, peers>>

Wires(c) ==
  CASE c.op = "list_tables" -> PlainWires \cup SchemaWires
    [] c.op = "execute_collection_query" /\ c.collection_name = News
         -> PlainWires \cup PageWires
    [] OTHER -> PlainWires

ResultOf(c, w) ==
  CASE c.op = "graphql_query"            -> GraphqlQueryResult(w)
    [] c.op = "introspection_query"      -> IntrospectionQueryResult(w)
    [] c.op = "list_tables"              -> ListTablesResult(w)
    [] c.op = "get_table_info"           -> GetTableInfoResult(w)
    [] c.op = "execute_collection_query" -> ExecuteCollectionQueryResult(w)

\* The server answers the POST with 301, 302 or 303 and a Location: the
\* opener behind urlopen sends a GET there and goes on waiting.
FollowRedirect ==
  /\ pc = "waiting"
  /\ nreq <= MaxRedirects
  /\ nreq' = nreq + 1
  /\ UNCHANGED <<pc, call, request, wire, ret, origin, walk, server, peers>>

\* urlopen returns or raises, and the call runs to its return.
Receive ==
  /\ pc = "waiting"
  /\ \E w \in Wires(call) :
       /\ wire' = w
       /\ ret' = ResultOf(call, w)
  /\ pc' = "returned"
  /\ UNCHANGED <<call, request, nreq, origin, walk, server, peers>>

\* The host is done with the result; nothing of the call is kept.
Discard ==
  /\ pc = "returned"
  /\ walk.pc # "fetching"
  /\ pc' = "idle"
  /\ call' = NoCall
  /\ request' = NoRequest
  /\ nreq' = 0
  /\ wire' = NoWire
  /\ ret' = NoReturn
  /\ origin' = NoOrigin
  /\ walk' = NoWalk
  /\ UNCHANGED <<server, peers>>

Next ==
  \/ CallGraphqlQuery
  \/ CallIntrospectionQuery
  \/ CallListTables
  \/ CallGetTableInfo
  \/ CallExecuteCollectionQuery
  \/ CallCollectionFromCatalog
  \/ DemoPagination
  \/ DemoPaginationStep
  \/ FollowRedirect
  \/ Receive
  \/ Discard

Spec == Init /\ [][Next]_vars

\* ------------------------------------- the machine, against the contract
\* The host's other callers: each runs one exposed operation at a time,
\* beside the walk and beside each other.
Peers    == 1..MaxPeers
IdlePeer == [pc |-> "idle", call |-> NoCall, request |-> NoRequest, ret |-> NoReturn]

\* The cursors a caller passes: none, or one the server gave out with the
\* first page of the walk.
PeerAfters ==
  {JNull, JStr(<<>>)}
    \cup {Cursor(i) : i \in 1..(IF server.totalCount < PageSize THEN server.totalCount
                                 ELSE PageSize)}

InitContract ==
  /\ pc = "idle"
  /\ call = NoCall
  /\ request = NoRequest
  /\ nreq = 0
  /\ wire = NoWire
  /\ ret = NoReturn
  /\ origin = NoOrigin
  /\ walk = NoWalk
  /\ server \in {ContractServer(n) : n \in 0..MaxRecords}
  /\ peers = [p \in Peers |-> IdlePeer]

\* The server's answer arrives, and the call runs to its return.
ReceiveContract ==
  /\ pc = "waiting"
  /\ wire' = ContractWire(server.totalCount, request)
  /\ ret' = ResultOf(call, wire')
  /\ pc' = "returned"
  /\ UNCHANGED <<call, request, nreq, origin, walk, server, peers>>

PeerExecuteCollectionQuery(p) ==
  /\ peers[p].pc = "idle"
  /\ \E first \in Firsts, after \in PeerAfters :
       peers' = [peers EXCEPT ![p] =
                   [pc      |-> "waiting",
                    call    |-> CollectionCall(News, first, after, JNull, JNull),
                    request |-> CollectionRequest(News, first, after, JNull, JNull),
                    ret     |-> NoReturn]]
  /\ UNCHANGED <<pc, call, request, nreq, wire, ret, origin, walk, server>>

PeerListTables(p) ==
  /\ peers[p].pc = "idle"
  /\ peers' = [peers EXCEPT ![p] =
                 [pc      |-> "waiting",
                  call    |-> [op |-> "list_tables"],
                  request |-> Payload(ListTablesText, JNull, JNull),
                  ret     |-> NoReturn]]
  /\ UNCHANGED <<pc, call, request, nreq, wire, ret, origin, walk, server>>

PeerReceive(p) ==
  /\ peers[p].pc = "waiting"
  /\ peers' = [peers EXCEPT ![p].pc = "returned",
                            ![p].ret = ResultOf(peers[p].call,
                                                ContractWire(server.totalCount,
                                                             peers[p].request))]
  /\ UNCHANGED <<pc, call, request, nreq, wire, ret, origin, walk, server>>

PeerDiscard(p) ==
  /\ peers[p].pc = "returned"
  /\ peers' = [peers EXCEPT ![p] = IdlePeer]
  /\ UNCHANGED <<pc, call, request, nreq, wire, ret, origin, walk, server>>

NextContract ==
  \/ DemoPagination
  \/ DemoPaginationStep
  \/ ReceiveContract
  \/ Discard
  \/ \E p \in Peers : PeerExecuteCollectionQuery(p)
  \/ \E p \in Peers : PeerListTables(p)
  \/ \E p \in Peers : PeerReceive(p)
  \/ \E p \in Peers : PeerDiscard(p)

SpecContract == InitContract /\ [][NextContract]_vars

\* ------------------------------------------------------------ the claims
\* What a finished call handed back, whether serialized or not.
Returned       == pc = "returned"
ReturnedStr    == ret.kind = "return" /\ ret.value.t = "jsonstr"
ResultPayload  == IF ret.value.t = "jsonstr" THEN ret.value.v ELSE ret.value
Keys(j)        == IF j.t = "obj" THEN DOMAIN j.v ELSE {}
\* The server answered 200 with a JSON document; Body is the value it encodes.
JsonAnswer(w)  == w.kind = "http" /\ w.status = 200 /\ w.body.utf8 /\ w.body.text.t = "jsonstr"
Body(w)        == w.body.text.v
HasErrorsKey(w) == JsonAnswer(w) /\ "errors" \in Keys(Body(w))
\* A result of exactly the shape {"error": "<message>"}.
IsFailureResult(r) ==
  /\ r.kind = "return"
  /\ r.value.t = "jsonstr"
  /\ Keys(r.value.v) = {"error"}
  /\ r.value.v.v["error"].t = "str"
FailureMessage(r) == r.value.v.v["error"].v

\* C1 (as claimed): every finished call of an exposed operation, whatever the
\* arguments and whatever the network and the server did, has returned a
\* JSON-encoded string: it has not raised and has not returned a non-string.
C1_AlwaysReturnsJsonString ==
  Returned => ret.kind = "return" /\ ret.value.t = "jsonstr"

\* The class of failure a caller of execute_query can tell from the exception.
ErrorClass(r) ==
  IF r.kind # "raise" THEN "none"
  ELSE IF r.type # "Exception" THEN "fault"
  ELSE CASE Head(r.msg) = "Network request error: " -> "network"
         [] Head(r.msg) = "HTTP Error: "            -> "http"
         [] Head(r.msg) = "JSON parsing error: "    -> "decode"
         [] Head(r.msg) = "GraphQL Error: "         -> "graphql"
         [] OTHER                                   -> "fault"

\* C2 (as claimed): execute_query reports a refused connection, a DNS failure
\* or a timeout as a network error, a non-200 status as an HTTP error carrying
\* the status code and the raw body, a body that is not valid JSON as a decode
\* error, and a decoded body containing `errors` as a GraphQL error, so that
\* no failure of one mode is reported as another.
C2_FailuresClassified ==
  wire # NoWire =>
    LET r == ExecuteQuery(wire)
    IN /\ wire \in Failures => ErrorClass(r) = "network"
       /\ wire.kind = "http" /\ wire.status # 200 =>
            /\ ErrorClass(r) = "http"
            /\ wire.body.utf8 =>
                 r.msg = <<"HTTP Error: ", StatusText(wire.status), " - ">> \o wire.body.text.v
       /\ wire.kind = "http" /\ wire.status = 200 /\ ~JsonAnswer(wire) =>
            ErrorClass(r) = "decode"
       /\ HasErrorsKey(wire) => ErrorClass(r) = "graphql"

\* The messages of a well-formed `errors` list, joined as the claim says.
WellFormedErrors(e) ==
  /\ e.t = "arr"
  /\ \A i \in DOMAIN e.v :
       /\ e.v[i].t = "obj"
       /\ "message" \in DOMAIN e.v[i].v => e.v[i].v["message"].t = "str"
MessageOrUnknown(err) ==
  IF "message" \in DOMAIN err.v THEN err.v["message"].v ELSE <<"Unknown Error">>
RECURSIVE SemicolonJoined(_)
SemicolonJoined(errs) ==
  IF errs = <<>> THEN <<>>
  ELSE IF Len(errs) = 1 THEN MessageOrUnknown(errs[1])
  ELSE MessageOrUnknown(errs[1]) \o <<"; ">> \o SemicolonJoined(Tail(errs))

\* C3: at every call site, a decoded response with an `errors` key, with or
\* without `data` and whatever `errors` holds, makes the call return a failure
\* {"error": ...} and never a success payload; when `errors` is a list of
\* error objects the message is "GraphQL Error: " followed by their messages in
\* order, joined by "; ", with "Unknown Error" for an error without a message.
C3_ErrorsAreHardFailure ==
  Returned /\ HasErrorsKey(wire) =>
    /\ IsFailureResult(ret)
    /\ WellFormedErrors(Body(wire).v["errors"]) =>
         FailureMessage(ret) =
           <<"GraphQL Error: ">> \o SemicolonJoined(Body(wire).v["errors"].v)

\* C3's case: list_tables gets a body with both `data` and two errors, the
\* second without a message, and reports both in order.
C3_Witness ==
  /\ Returned
  /\ call.op = "list_tables"
  /\ HasErrorsKey(wire)
  /\ "data" \in Keys(Body(wire))
  /\ Body(wire).v["errors"] = JArr(<<JObj([message |-> JStr(<<"boom">>)]),
                                      JObj([path |-> JArr(<<>>)])>>)
  /\ IsFailureResult(ret)
  /\ FailureMessage(ret) = <<"GraphQL Error: ", "boom", "; ", "Unknown Error">>

\* execute_query succeeds: a 200 answer whose JSON value passes the `errors`
\* check (a dict, list or string that does not hold "errors").
TransportSuccess(w) ==
  /\ JsonAnswer(w)
  /\ Body(w).t \in {"obj", "arr", "str"}
  /\ "errors" \notin Keys(Body(w))
  /\ Body(w).t = "arr" => \A i \in DOMAIN Body(w).v : Body(w).v[i] # JStr(<<"errors">>)
  /\ Body(w).t = "str" => \A i \in DOMAIN Body(w).v : Body(w).v[i] # "errors"

\* C4 (as claimed): the decoded result of a finished call has a top-level
\* `data` key exactly when the call succeeded and a top-level `error` key
\* exactly when it failed, never both and never neither.
C4_DataXorError ==
  Returned =>
    /\ ("data" \in Keys(ResultPayload)) # ("error" \in Keys(ResultPayload))
    /\ "data" \in Keys(ResultPayload) <=> TransportSuccess(wire)

\* C4 (amended): a failed call returns exactly {"error": message}, without a
\* `data` key; a successful graphql_query, introspection_query, get_table_info
\* or execute_collection_query returns the server's decoded body unchanged, so
\* it has a `data` key exactly when that body has one; a successful list_tables
\* returns either the catalogue {tables, total}, which has neither key, or the
\* server's body, or, if the schema could not be walked, {"error": message}.
C4_FailureShape ==
  Returned =>
    /\ ~TransportSuccess(wire) => IsFailureResult(ret)
    /\ TransportSuccess(wire) /\ call.op # "list_tables" =>
         ReturnedStr /\ ResultPayload = Body(wire)
    /\ TransportSuccess(wire) /\ call.op = "list_tables" =>
         \/ ReturnedStr /\ Keys(ResultPayload) = {"tables", "total"}
         \/ ResultPayload = Body(wire)
         \/ IsFailureResult(ret)

\* C4's cases: a successful graphql_query whose result has neither key, and
\* a failed one whose result is {"error": ...}.
C4_Witness ==
  /\ Returned
  /\ call.op = "graphql_query"
  /\ TransportSuccess(wire)
  /\ ReturnedStr
  /\ ResultPayload = EmptyObj

\* C5: the variables execute_collection_query sends always bind `first` to
\* the caller's value; they have no `after` when `after` is None or ""; and
\* when `after` is a non-empty string they bind `after` to exactly it.
C5_VariableBinding ==
  call.op = "execute_collection_query" =>
    /\ request.variables.t = "obj"
    /\ "first" \in DOMAIN request.variables.v
    /\ request.variables.v["first"] = JNum(call.first)
    /\ call.after \in {JNull, JStr(<<>>)} => DOMAIN request.variables.v = {"first"}
    /\ call.after \notin {JNull, JStr(<<>>)} =>
         /\ DOMAIN request.variables.v = {"first", "after"}
         /\ request.variables.v["after"] = call.after

\* C5's cases: a cursor "c3" sent as it is, and an empty cursor left out.
C5_Witness ==
  /\ pc = "waiting"
  /\ call.op = "execute_collection_query"
  /\ call.after = JStr(<<"c3">>)
  /\ request.variables = JObj([first |-> JNum(call.first), after |-> JStr(<<"c3">>)])

\* capitalize as the claim reads it: first character upper-cased, the others
\* unchanged.
UpperFirst(s) == [i \in DOMAIN s |-> IF i = 1 THEN ToUpper(s[i]) ELSE s[i]]
\* capitalize as Python computes it, spelled out for the model's characters.
LowerRest(s) ==
  [i \in DOMAIN s |->
     IF i = 1 THEN (CASE s[i] = "a" -> "A" [] s[i] = "b" -> "B" [] s[i] = "n" -> "N"
                      [] OTHER -> s[i])
     ELSE (CASE s[i] = "B" -> "b" [] s[i] = "P" -> "p" [] OTHER -> s[i])]

\* C6 (as claimed): the query execute_collection_query builds has root field
\* collection_name + "Collection" and operation name "Get" +
\* capitalize(collection_name) + "Collection", capitalize leaving every
\* character after the first unchanged.
C6_OperationNameKeepsCase ==
  call.op = "execute_collection_query" =>
    /\ request.query.root = call.collection_name \o Suffix
    /\ request.query.operation = <<"G","e","t">> \o UpperFirst(call.collection_name) \o Suffix

\* C6 (amended): the root field is collection_name + "Collection" and the
\* operation name is "Get" + capitalize(collection_name) + "Collection", where
\* capitalize upper-cases the first character and lower-cases all the others.
C6_OperationNameLowersRest ==
  call.op = "execute_collection_query" =>
    /\ request.query.root = call.collection_name \o Suffix
    /\ request.query.operation = <<"G","e","t">> \o LowerRest(call.collection_name) \o Suffix

\* C6's case: blogPost is queried as blogPostCollection under the operation
\* name GetBlogpostCollection.
C6_Witness ==
  /\ pc = "waiting"
  /\ call.op = "execute_collection_query"
  /\ call.collection_name = BlogPost
  /\ request.query.root = <<"b","l","o","g","P","o","s","t","C","o","l","l","e","c","t","i","o","n">>
  /\ request.query.operation =
       <<"G","e","t","B","l","o","g","p","o","s","t","C","o","l","l","e","c","t","i","o","n">>

\* An introspection answer list_tables can read a field list from: a 200 JSON
\* answer without `errors` whose data.__schema.queryType.fields is a list of
\* objects, each with a string `name`.
HasKey(j, k) == j.t = "obj" /\ k \in DOMAIN j.v
FieldListAnswer(w) ==
  /\ JsonAnswer(w)
  /\ "errors" \notin Keys(Body(w))
  /\ HasKey(Body(w), "data")
  /\ HasKey(Body(w).v["data"], "__schema")
  /\ HasKey(Body(w).v["data"].v["__schema"], "queryType")
  /\ HasKey(Body(w).v["data"].v["__schema"].v["queryType"], "fields")
  /\ Body(w).v["data"].v["__schema"].v["queryType"].v["fields"].t = "arr"
FieldsOf(w) == Body(w).v["data"].v["__schema"].v["queryType"].v["fields"].v
GoodFields(w) ==
  /\ FieldListAnswer(w)
  /\ \A i \in DOMAIN FieldsOf(w) :
       HasKey(FieldsOf(w)[i], "name") /\ FieldsOf(w)[i].v["name"].t = "str"
FieldNamesOf(w) == [i \in DOMAIN FieldsOf(w) |-> FieldsOf(w)[i].v["name"].v]
\* The fields the catalogue is to keep, and the table name of one.
EndsWithCollection(n) ==
  Len(n) >= 10 /\ SubSeq(n, Len(n) - 9, Len(n)) = <<"C","o","l","l","e","c","t","i","o","n">>
Kept(n) == EndsWithCollection(n) /\ ~(Len(n) >= 2 /\ n[1] = "_" /\ n[2] = "_")
Stripped(n) == SubSeq(n, 1, Len(n) - 10)
KeptFields(w) == SelectSeq(FieldNamesOf(w), Kept)

\* C7: for every successful introspection response, `tables` holds exactly
\* one descriptor per root field that ends with Collection and does not start
\* with __, named by the field name without the suffix, in the order of the
\* response, and `total` is the length of `tables`.
C7_CatalogFiltering ==
  Returned /\ call.op = "list_tables" /\ GoodFields(wire) =>
    /\ HasTables(ret)
    /\ Keys(ResultPayload) = {"tables", "total"}
    /\ Len(TablesOf(ret)) = Len(KeptFields(wire))
    /\ \A i \in DOMAIN TablesOf(ret) :
         TablesOf(ret)[i].v["name"] = JStr(Stripped(KeptFields(wire)[i]))
    /\ ResultPayload.v["total"] = JNum(Len(TablesOf(ret)))

\* C7's case: of the fields __xCollection and newsCollection only the second
\* is catalogued, as news.
C7_Witness ==
  /\ Returned
  /\ call.op = "list_tables"
  /\ GoodFields(wire)
  /\ FieldNamesOf(wire) = << <<"_","_","x">> \o Suffix, News \o Suffix >>
  /\ HasTables(ret)
  /\ Len(TablesOf(ret)) = 1
  /\ TablesOf(ret)[1].v["name"] = JStr(News)
  /\ ResultPayload.v["total"] = JNum(1)

\* C8: a table name taken from the catalogue and passed to
\* execute_collection_query as collection_name builds a query whose root field
\* is the root field the descriptor was made from.
C8_RoundTrip ==
  origin # NoOrigin =>
    /\ call.op = "execute_collection_query"
    /\ request.query.root = origin.v

\* C8's case: the descriptor made from blogPostCollection is queried.
C8_Witness ==
  /\ pc = "waiting"
  /\ origin = JStr(BlogPost \o Suffix)
  /\ call.collection_name = BlogPost
  /\ request.query.root = BlogPost \o Suffix

\* C9 (as claimed): whenever the introspection call of list_tables fails, or
\* its response cannot be reduced to a field list, list_tables returns a
\* failure result; a result with `tables` is returned only when every field
\* of the response has been processed.
C9_FailureOrWholeCatalog ==
  Returned /\ call.op = "list_tables" =>
    /\ ~GoodFields(wire) => IsFailureResult(ret)
    /\ HasTables(ret) => GoodFields(wire)

\* C10 (as claimed): every descriptor list_tables produces has exactly the
\* keys name, kind and description, with kind = "collection", name a string
\* and description a string, the empty string when the field's description is
\* missing or null.
C10_DescriptorShape ==
  Returned /\ call.op = "list_tables" /\ HasTables(ret) /\ GoodFields(wire) =>
    \A i \in DOMAIN TablesOf(ret) :
      LET d == TablesOf(ret)[i] IN
        /\ Keys(d) = {"name", "kind", "description"}
        /\ d.v["kind"] = JStr(<<"collection">>)
        /\ d.v["name"].t = "str"
        /\ d.v["description"].t = "str"

\* ------------------------------------------------ the pagination walk
\* A fetch of the walk is in flight.
FetchInFlight == walk.pc = "fetching" /\ pc = "waiting"

\* The page a decoded result carries, if it carries one.
CarriesPage(r) ==
  /\ r.t = "obj" /\ "data" \in DOMAIN r.v
  /\ r.v["data"].t = "obj" /\ "newsCollection" \in DOMAIN r.v["data"].v
  /\ r.v["data"].v["newsCollection"].t = "obj"
  /\ {"edges", "pageInfo"} \subseteq DOMAIN r.v["data"].v["newsCollection"].v
PageInfoOf(r) == r.v["data"].v["newsCollection"].v["pageInfo"]
EdgesOf(r)    == r.v["data"].v["newsCollection"].v["edges"]
Says(info, key) == info.t = "obj" /\ key \in DOMAIN info.v /\ Truthy(info.v[key])

\* The state the walk is in after its latest fetch, as the state machine of
\* the specification names it.
WalkState ==
  IF walk.pc = "off" \/ walk.result = Unbound THEN "NOT_STARTED"
  ELSE IF walk.result.t = "obj" /\ "error" \in DOMAIN walk.result.v THEN "FAILED"
  ELSE IF /\ CarriesPage(walk.result)
          /\ Says(PageInfoOf(walk.result), "hasNextPage")
          /\ Says(PageInfoOf(walk.result), "endCursor")
  THEN "HAS_NEXT"
  ELSE "EXHAUSTED"

\* C11: EXHAUSTED and FAILED are terminal: whenever the walk has a fetch in
\* flight, it is its first fetch or its latest fetch was a success whose page
\* had hasNextPage true and an endCursor; no fetch is issued after a failed
\* fetch or after a success of any other kind.
C11_TerminalStatesEndTheWalk ==
  FetchInFlight => WalkState \in {"NOT_STARTED", "HAS_NEXT"}

\* The page the walk saved last.
LastPage == walk.all_pages_data[Len(walk.all_pages_data)]

\* C12: cursor threading: every fetch of the walk asks for page_size records;
\* the first fetch and every fetch issued before any page was fetched carries
\* no `after`; every other fetch carries as `after` exactly the endCursor of
\* the page fetched last.
C12_CursorThreading ==
  FetchInFlight =>
    LET variables == request.variables.v
    IN /\ variables["first"] = JNum(PageSize)
       /\ walk.page_num = 1 => "after" \notin DOMAIN variables
       /\ IF walk.all_pages_data = <<>>
          THEN "after" \notin DOMAIN variables
          ELSE /\ "after" \in DOMAIN variables
               /\ "endCursor" \in DOMAIN LastPage.pageInfo.v
               /\ variables["after"] = LastPage.pageInfo.v["endCursor"]

\* The third fetch of a walk, sent with the cursor "c3" of the second page.
C12_Witness ==
  /\ FetchInFlight
  /\ walk.page_num = 3
  /\ Len(walk.all_pages_data) = 2
  /\ "after" \in DOMAIN request.variables.v
  /\ request.variables.v["after"] = JStr(<<"c3">>)
  /\ LastPage.pageInfo.v["endCursor"] = JStr(<<"c3">>)

\* ------------------------------------------ the walk against the contract
Ceil(n, d) == (n + d - 1) \div d
Largest(a, b)  == IF a >= b THEN a ELSE b
Smallest(a, b) == IF a <= b THEN a ELSE b

\* The ids of the records of the pages the walk has saved, page after page.
IdsOf(page) == [k \in DOMAIN page.records.v |-> page.records.v[k].v["node"].v["id"].v]
RECURSIVE Concatenated(_)
Concatenated(pages) ==
  IF pages = <<>> THEN <<>> ELSE IdsOf(Head(pages)) \o Concatenated(Tail(pages))
\* The first n records of the dataset, in server order.
ServerOrder(n) == [i \in 1..n |-> i]

WalkOverContract == server.kind = "contract" /\ walk.pc # "off"

\* C13 as stated: over a dataset of totalCount records the walk issues at
\* most ceil(totalCount / first) fetches, and when it has ended the pages it
\* fetched are, put together, every record once and in server order.
C13_TerminationAndCoverage ==
  WalkOverContract =>
    /\ walk.page_num <= Ceil(server.totalCount, PageSize)
    /\ walk.pc = "done" =>
         Concatenated(walk.all_pages_data) = ServerOrder(server.totalCount)

\* C13, amended: the walk issues at most max(1, ceil(totalCount / first))
\* fetches and never more than total_pages; at every moment the pages fetched
\* so far are a prefix of the dataset in server order, without duplicates or
\* gaps; and when the walk has ended they are its first
\* min(totalCount, total_pages * first) records.
C13_BoundedWalk ==
  WalkOverContract =>
    /\ walk.page_num <= Largest(1, Ceil(server.totalCount, PageSize))
    /\ walk.page_num <= TotalPages
    /\ Concatenated(walk.all_pages_data)
         = ServerOrder(Len(Concatenated(walk.all_pages_data)))
    /\ walk.pc = "done" =>
         Concatenated(walk.all_pages_data)
           = ServerOrder(Smallest(server.totalCount, TotalPages * PageSize))

\* A walk over ten records that has ended after its three pages.
C13_Witness ==
  /\ WalkOverContract
  /\ walk.pc = "done"
  /\ server.totalCount = TotalPages * PageSize + 1
  /\ Len(walk.all_pages_data) = TotalPages
  /\ Len(Concatenated(walk.all_pages_data)) = TotalPages * PageSize

\* ------------------------------------------------- one request per call
\* C14: one invocation of an exposed operation issues at most one HTTP
\* request, whatever the outcome.
C14_AtMostOneRequest == nreq <= 1

\* ------------------------------------------------ statelessness of calls
IsCollectionCall(c) == c.op = "execute_collection_query"
\* The page the contract gives for the arguments of a call.
PageFor(c) ==
  ContractPage(server.totalCount, c.first, IF Truthy(c.after) THEN c.after ELSE JNull)
Decoded(r) == r.value.v

\* C15: against the unchanged dataset every execute_collection_query call,
\* of the walk or of a concurrent caller, returns the page its own
\* collection_name, first and after select, whatever calls ran before it or
\* run beside it; and two callers that hold the result of the same call hold
\* the same result.
C15_Stateless ==
  /\ (pc = "returned" /\ IsCollectionCall(call)) => Decoded(ret) = PageFor(call)
  /\ \A p \in Peers :
       (peers[p].pc = "returned" /\ IsCollectionCall(peers[p].call)) =>
         /\ Decoded(peers[p].ret) = PageFor(peers[p].call)
         /\ (pc = "returned" /\ call = peers[p].call) => ret = peers[p].ret
         /\ \A q \in Peers :
              (peers[q].pc = "returned" /\ peers[q].call = peers[p].call) =>
                peers[q].ret = peers[p].ret

\* A caller holds the first page it asked for without a cursor while the
\* walk has its second fetch, sent with a cursor, in flight.
C15_Witness ==
  /\ FetchInFlight
  /\ walk.page_num = 2
  /\ "after" \in DOMAIN request.variables.v
  /\ \E p \in Peers :
       /\ peers[p].pc = "returned"
       /\ IsCollectionCall(peers[p].call)
       /\ peers[p].call.after = JNull
       /\ Len(EdgesOf(Decoded(peers[p].ret)).v) = peers[p].call.first

\* ------------------------------------------------------ where and order_by
\* The text x is part of the request: of the arguments of its query, or the
\* value of one of its variables.
Carries(payload, x) ==
  \/ \E i \in DOMAIN payload.query.args :
       i + Len(x.v) - 1 <= Len(payload.query.args)
         /\ SubSeq(payload.query.args, i, i + Len(x.v) - 1) = x.v
  \/ \E k \in DOMAIN payload.variables.v : payload.variables.v[k] = x

\* C16: the request of an execute_collection_query call carries the `where`
\* and the `order_by` the caller supplied, and so differs from the request of
\* the same call without them.
C16_FiltersReachTheServer ==
  (IsCollectionCall(call) /\ request # NoRequest) =>
    /\ call.where # JNull => Carries(request, call.where)
    /\ call.order_by # JNull => Carries(request, call.order_by)
    /\ (call.where # JNull \/ call.order_by # JNull) =>
         request # CollectionRequest(call.collection_name, call.first, call.after,
                                     JNull, JNull)

\* ------------------------------------------- the variables of graphql_query
BlankArgument(v)   == v = JNull \/ (v.t = "str" /\ \A i \in DOMAIN v.v : IsBlankChunk(v.v[i]))
InvalidArgument(v) == v # JNull /\ v.t = "str" /\ \E i \in DOMAIN v.v : ~IsBlankChunk(v.v[i])

\* C17: a graphql_query call whose `variables` is non-blank text that is not
\* JSON has returned {"error": "Variables JSON format error"} and has sent
\* no request; one whose `variables` is absent, empty or blank has sent its
\* request with the empty mapping as variables.
C17_VariablesArgument ==
  call.op = "graphql_query" =>
    /\ InvalidArgument(call.variables) =>
         /\ pc = "returned"
         /\ nreq = 0
         /\ request = NoRequest
         /\ wire = NoWire
         /\ ret.value = Dumps(JObj([error |-> JStr(<<"Variables JSON format error">>)]))
    /\ BlankArgument(call.variables) =>
         /\ nreq >= 1
         /\ request # NoRequest
         /\ request.variables = EmptyObj

\* The call with variables " {bad" has returned without a request.
C17_Witness ==
  /\ call.op = "graphql_query"
  /\ call.variables = JStr(<<" ", "{bad">>)
  /\ pc = "returned"
  /\ nreq = 0

====
